---- MODULE Spec2Model ----
(***************************************************************************)
(* DOMTreeSerializer (browser_use/dom/serializer/serializer.py).           *)
(*                                                                         *)
(* One serializer instance at a time works on one raw snapshot tree.  The  *)
(* raw tree is an input: it is drawn in Init from a bounded family of      *)
(* trees.  The pipeline stages are operators that follow the recursive     *)
(* methods of the class; the actions are the constructor, the two halves   *)
(* of serialize_accessible_elements (the reset of the run state, then the  *)
(* five stages and the return) and the static renderer serialize_tree.     *)
(***************************************************************************)
EXTENDS Integers, Sequences, FiniteSets, TLC

\* ------------------------------------------------------------------------
\* Bounds of the model
\* ------------------------------------------------------------------------
\* Number of raw nodes of the exhaustively generated trees.
MaxNodes == 2
\* Number of serialize_accessible_elements calls in one behaviour.
MaxRuns == 2

\* ------------------------------------------------------------------------
\* Raw nodes (EnhancedDOMTreeNode), as the serializer reads them
\* ------------------------------------------------------------------------
\* Python's None for a string-valued field or attribute.
Null == "null"

\* snapshot_node.bounds is None
NullRect == [x |-> -1, y |-> -1, width |-> -1, height |-> -1]

Rect(x, y, w, h) == [x |-> x, y |-> y, width |-> w, height |-> h]

\* The rectangles of the generated nodes: Inner lies inside Outer, Apart is
\* disjoint from both, Straddle is half inside Outer.
Outer == Rect(0, 0, 10, 10)
Inner == Rect(2, 2, 4, 4)
Apart == Rect(20, 20, 4, 4)
Straddle == Rect(8, 2, 4, 4)

\* node.attributes: every attribute the serializer looks at, Null when the
\* attribute is absent ('k' in attributes  <=>  attributes[k] # Null).
NoAttributes ==
    [type |-> Null, role |-> Null, onclick |-> Null, aria_label |-> Null,
     exclude_session |-> Null, exclude_legacy |-> Null,
     min |-> Null, max |-> Null, multiple |-> Null, value |-> Null]

\* attributes.get(key)
AttrGet(attributes, key) == attributes[key]

\* key in attributes
AttrHas(attributes, key) == attributes[key] # Null

\* A visible, laid-out <div> that the clickability oracle rejects.
PlainDiv ==
    [node_type |-> "ELEMENT", tag_name |-> "div", attributes |-> NoAttributes,
     snapshot_node |-> TRUE, bounds |-> Inner, is_visible |-> TRUE,
     is_actually_scrollable |-> FALSE, is_scrollable |-> FALSE,
     should_show_scroll_info |-> FALSE, shadow_root_type |-> Null,
     node_value |-> Null, content_document |-> FALSE, ax_child_ids |-> FALSE,
     clickable |-> FALSE, paint_ignored |-> FALSE,
     \* node.ax_node.properties, in order: [name, value] each; <<>> without ax_node
     ax_properties |-> <<>>]

\* The kinds of raw node the trees are built from.
Profile(name) ==
    CASE name = "div" -> PlainDiv
      [] name = "hidden" -> [PlainDiv EXCEPT !.is_visible = FALSE]
      [] name = "button" ->
            [PlainDiv EXCEPT !.tag_name = "button", !.bounds = Outer, !.clickable = TRUE]
      [] name = "link_apart" ->
            [PlainDiv EXCEPT !.tag_name = "a", !.bounds = Apart, !.clickable = TRUE]
      [] name = "button_unlaid" ->
            [PlainDiv EXCEPT !.tag_name = "button", !.snapshot_node = FALSE,
                             !.bounds = NullRect, !.is_visible = FALSE,
                             !.clickable = TRUE]
      [] name = "span" ->
            [PlainDiv EXCEPT !.tag_name = "span", !.clickable = TRUE]
      [] name = "span_aria" ->
            [PlainDiv EXCEPT !.tag_name = "span", !.clickable = TRUE,
                             !.attributes = [NoAttributes EXCEPT !.aria_label = "Close"]]
      [] name = "span_apart" ->
            [PlainDiv EXCEPT !.tag_name = "span", !.clickable = TRUE, !.bounds = Apart]
      [] name = "span_straddle" ->
            [PlainDiv EXCEPT !.tag_name = "span", !.clickable = TRUE, !.bounds = Straddle]
      [] name = "file" ->
            [PlainDiv EXCEPT !.tag_name = "input", !.is_visible = FALSE, !.clickable = TRUE,
                             !.attributes = [NoAttributes EXCEPT !.type = "file"]]
      [] name = "file_excluded" ->
            [PlainDiv EXCEPT !.tag_name = "input", !.is_visible = FALSE, !.clickable = TRUE,
                             !.attributes = [NoAttributes EXCEPT !.type = "file",
                                                                 !.exclude_legacy = "true"]]
      [] name = "div_excluded" ->
            [PlainDiv EXCEPT !.attributes = [NoAttributes EXCEPT !.exclude_session = "true"]]
      [] name = "range" ->
            [PlainDiv EXCEPT !.tag_name = "input", !.clickable = TRUE,
                             !.attributes = [NoAttributes EXCEPT !.type = "range",
                                                                 !.min = "10", !.max = "50"]]
      [] name = "range_covered" ->
            [PlainDiv EXCEPT !.tag_name = "input", !.clickable = TRUE,
                             !.paint_ignored = TRUE,
                             !.attributes = [NoAttributes EXCEPT !.type = "range"]]
      [] name = "range_hidden" ->
            [PlainDiv EXCEPT !.tag_name = "input", !.clickable = TRUE,
                             !.is_visible = FALSE,
                             !.attributes = [NoAttributes EXCEPT !.type = "range",
                                                                 !.aria_label = "Close"]]
      [] name = "scroll" ->
            [PlainDiv EXCEPT !.bounds = Outer, !.is_actually_scrollable = TRUE,
                             !.is_scrollable = TRUE, !.should_show_scroll_info = TRUE]
      [] name = "scroll_hint" ->
            [PlainDiv EXCEPT !.is_scrollable = TRUE]
      [] name = "iframe" ->
            [PlainDiv EXCEPT !.tag_name = "iframe", !.content_document = TRUE]
      [] name = "frame" ->
            [PlainDiv EXCEPT !.tag_name = "frame", !.content_document = TRUE]
      [] name = "scroll_click" ->
            [PlainDiv EXCEPT !.bounds = Outer, !.is_actually_scrollable = TRUE,
                             !.is_scrollable = TRUE, !.should_show_scroll_info = TRUE,
                             !.clickable = TRUE]
      [] name = "covered" ->
            [PlainDiv EXCEPT !.clickable = TRUE, !.paint_ignored = TRUE]
      [] name = "svg" ->
            [PlainDiv EXCEPT !.tag_name = "svg", !.clickable = TRUE]
      [] name = "text" ->
            [PlainDiv EXCEPT !.node_type = "TEXT", !.tag_name = "#text",
                             !.node_value = "Hello"]
      [] name = "fragment" ->
            [PlainDiv EXCEPT !.node_type = "FRAGMENT", !.tag_name = "#document-fragment",
                             !.snapshot_node = FALSE, !.bounds = NullRect,
                             !.is_visible = FALSE, !.shadow_root_type = "open"]
      [] name = "fragment_closed" ->
            [PlainDiv EXCEPT !.node_type = "FRAGMENT", !.tag_name = "#document-fragment",
                             !.snapshot_node = FALSE, !.bounds = NullRect,
                             !.is_visible = FALSE, !.shadow_root_type = "closed"]
      [] name = "document" ->
            [PlainDiv EXCEPT !.node_type = "DOCUMENT", !.tag_name = "#document",
                             !.snapshot_node = FALSE, !.bounds = NullRect,
                             !.is_visible = FALSE]


\* ------------------------------------------------------------------------
\* State
\* ------------------------------------------------------------------------
VARIABLES
    dom,                    \* the raw tree: [parent, node], node i of 1..Len
    session_id,             \* the browser session's id, given to every constructor
    compound_children,      \* node._compound_children of every raw node
    pc,                     \* "none", "ready", "running", "returned", "rendered"
    enable_bbox_filtering,  \* self.enable_bbox_filtering
    paint_order_filtering,  \* self.paint_order_filtering
    containment_threshold,  \* self.containment_threshold, in percent
    previous_cached_selector_map,   \* self._previous_cached_selector_map
    interactive_counter,    \* self._interactive_counter
    selector_map,           \* self._selector_map
    clickable_cache,        \* self._clickable_cache
    timing_info,            \* self.timing_info
    simplified_tree,        \* the local simplified_tree of the last run
    optimized_tree,         \* the local optimized_tree of the last run
    returned,               \* the SerializedDOMState the caller holds
    rendered,               \* the lines serialize_tree gave for it
    runs,                   \* serialize calls begun so far
    calls_on_instance,      \* serialize calls begun on the current instance
    oracle_calls,           \* this run: invocations of the oracle, per raw node
    query_log,              \* this run: <<raw node, answer>> of every query
    index_visited,          \* this run: raw nodes the indexer was called on
    tables,                 \* the dict objects that hold address tables, by identity
    self_table,             \* the object self._selector_map is bound to
    previous_table,         \* the object self._previous_cached_selector_map is
                            \* bound to, 0 for None
    held,                   \* what the caller holds: the previous table and the
                            \* tables returned to it, each with its contents
                            \* when the caller last had its hands on it
    geometry                \* a call of _is_contained on its own: its arguments,
                            \* and its answers once it has returned

vars == <<dom, session_id, compound_children, pc, enable_bbox_filtering,
          paint_order_filtering, containment_threshold,
          previous_cached_selector_map, interactive_counter,
          selector_map, clickable_cache, timing_info, simplified_tree,
          optimized_tree, returned, rendered, runs, calls_on_instance,
          oracle_calls, query_log, index_visited, tables, self_table,
          previous_table, held, geometry>>

RawNodes == 1..Len(dom.node)

\* node.node_id: the node's identity in the snapshot
NodeId(n) == n

\* node.backend_node_id: unique within one observation
BackendNodeId(n) == 10 + n

\* node.children_and_shadow_roots, in document order
ChildrenAndShadowRoots(n) ==
    SelectSeq([i \in 1..Len(dom.parent) |-> i], LAMBDA i : dom.parent[i] = n)

\* ------------------------------------------------------------------------
\* SimplifiedNode
\* ------------------------------------------------------------------------
\* Python's None where a SimplifiedNode is expected
NoNode ==
    [original_node |-> 0, children |-> <<>>, should_display |-> TRUE,
     is_interactive |-> FALSE, is_new |-> FALSE, ignored_by_paint_order |-> FALSE,
     excluded_by_parent |-> FALSE, is_shadow_host |-> FALSE,
     is_compound_component |-> FALSE]

IsNone(s) == s.original_node = 0

\* SimplifiedNode(original_node=n, children=kids, is_shadow_host=host)
SimplifiedNode(n, kids, host) ==
    [NoNode EXCEPT !.original_node = n, !.children = kids, !.is_shadow_host = host]

RECURSIVE SubtreeNodes(_)
\* every SimplifiedNode of the tree rooted at s
SubtreeNodes(s) ==
    IF IsNone(s) THEN {}
    ELSE {s} \cup UNION {SubtreeNodes(s.children[i]) : i \in 1..Len(s.children)}

\* the proper descendants of s
Descendants(s) == UNION {SubtreeNodes(s.children[i]) : i \in 1..Len(s.children)}

\* ------------------------------------------------------------------------
\* Numeric attribute parsing
\* ------------------------------------------------------------------------
\* float(value_str) for the attribute values of the model; -1 stands for
\* ValueError/TypeError.
ParseFloat(value_str) ==
    CASE value_str = "10" -> 10
      [] value_str = "50" -> 50
      [] value_str = "0" -> 0
      [] value_str = "100" -> 100
      [] OTHER -> -1

_safe_parse_number(value_str, default) ==
    IF ParseFloat(value_str) = -1 THEN default ELSE ParseFloat(value_str)

\* An optional number: None is <<>>, the number v is <<v>>
None == <<>>
Some(v) == <<v>>

\* _safe_parse_optional_number with the fallback of _safe_parse_number
_safe_parse_optional_number_Defaulted(value_str) ==
    IF value_str \in {Null, ""} THEN Some(0)
    ELSE IF ParseFloat(value_str) = -1 THEN Some(0)
    ELSE Some(ParseFloat(value_str))

_safe_parse_optional_number(value_str) ==
    IF value_str \in {Null, ""} THEN None
    ELSE IF ParseFloat(value_str) = -1 THEN None
    ELSE Some(ParseFloat(value_str))

\* ------------------------------------------------------------------------
\* Compound components
\* ------------------------------------------------------------------------
\* valuemin, valuemax and valuenow are optional: None or Some(value)
Descriptor(role, name, valuemin, valuemax, valuenow) ==
    [role |-> role, name |-> name, valuemin |-> valuemin, valuemax |-> valuemax,
     valuenow |-> valuenow]

\* What one call of _add_compound_components appends to node._compound_children.
_add_compound_components(n) ==
    LET node == dom.node[n]
        input_type == AttrGet(node.attributes, "type")
    IN  IF node.tag_name \notin {"input", "select", "details", "audio", "video"} THEN <<>>
        ELSE IF node.tag_name = "input"
                /\ input_type \notin {"date", "time", "datetime-local", "month", "week",
                                      "range", "number", "color", "file"} THEN <<>>
        ELSE IF node.tag_name # "input" /\ ~node.ax_child_ids THEN <<>>
        ELSE IF node.tag_name = "input" /\ input_type = "range" THEN
            <<Descriptor("slider", "Value",
                Some(_safe_parse_number(
                    IF AttrHas(node.attributes, "min") THEN node.attributes.min ELSE "0", 0)),
                Some(_safe_parse_number(
                    IF AttrHas(node.attributes, "max") THEN node.attributes.max ELSE "100", 100)),
                None)>>
        ELSE IF node.tag_name = "input" /\ input_type = "number" THEN
            <<Descriptor("button", "Increment", None, None, None),
              Descriptor("button", "Decrement", None, None, None),
              Descriptor("textbox", "Value",
                _safe_parse_optional_number(AttrGet(node.attributes, "min")),
                _safe_parse_optional_number(AttrGet(node.attributes, "max")),
                None)>>
        ELSE IF node.tag_name = "input" /\ input_type = "file" THEN
            <<Descriptor("button", "Browse Files", None, None, None),
              Descriptor("textbox",
                IF AttrHas(node.attributes, "multiple") THEN "Files Selected"
                ELSE "File Selected", None, None, Some("None"))>>
        ELSE <<>>

\* ------------------------------------------------------------------------
\* Step 1: _create_simplified_tree
\* ------------------------------------------------------------------------
DISABLED_ELEMENTS == {"style", "script", "head", "meta", "link", "title"}

SVG_ELEMENTS ==
    {"path", "rect", "g", "circle", "ellipse", "line", "polyline", "polygon", "use",
     "defs", "clipPath", "mask", "pattern", "image", "text", "tspan"}

\* str.lower() on the attribute values of the model
Lower(str) ==
    CASE str = "TRUE" -> "true"
      [] str = "True" -> "true"
      [] str = "FALSE" -> "false"
      [] OTHER -> str

\* lines 519-532: the element carries an exclusion attribute that applies
ExcludedByAttribute(n) ==
    LET attributes == dom.node[n].attributes
        session_specific ==
            IF session_id # Null THEN AttrGet(attributes, "exclude_session") ELSE Null
        exclude_attr ==
            IF session_specific \in {Null, ""}
            THEN AttrGet(attributes, "exclude_legacy")
            ELSE session_specific
    IN  exclude_attr # Null /\ Lower(exclude_attr) = "true"

\* any(attr.startswith(('aria-', 'pseudo')) for attr in node.attributes.keys())
HasValidationAttrs(n) == AttrHas(dom.node[n].attributes, "aria_label")

\* the file-input test with the type compared to the tag
IsFileInput_ComparesTag(n) ==
    /\ dom.node[n].tag_name = "file"
    /\ AttrGet(dom.node[n].attributes, "type") = "file"

\* tag_name.lower() == 'input' and attributes.get('type') == 'file'
IsFileInput(n) ==
    /\ dom.node[n].tag_name = "input"
    /\ AttrGet(dom.node[n].attributes, "type") = "file"

\* len(node_value.strip()) for the text values of the model
StripLen(node_value) ==
    CASE node_value = "Hello" -> 5
      [] node_value = "x" -> 1
      [] OTHER -> 0

\* lines 587-588 and 1070-1076: a text node worth keeping and printing
MeaningfulText(n) ==
    /\ dom.node[n].snapshot_node /\ dom.node[n].is_visible
    /\ dom.node[n].node_value # Null
    /\ StripLen(dom.node[n].node_value) > 1

RECURSIVE _create_simplified_tree(_)
RECURSIVE SimplifyAll(_)
RECURSIVE SimplifyFirst(_)

\* for child in ...: simplified_child = ...; if simplified_child: append
\* [list: the surviving children, calls: nodes _add_compound_components ran on]
SimplifyAll(kids) ==
    IF kids = <<>> THEN [list |-> <<>>, calls |-> {}]
    ELSE LET h == _create_simplified_tree(Head(kids))
             r == SimplifyAll(Tail(kids))
         IN  [list |-> (IF IsNone(h.s) THEN <<>> ELSE <<h.s>>) \o r.list,
              calls |-> h.calls \cup r.calls]

\* lines 491-496: the first child that simplifies to something
SimplifyFirst(kids) ==
    IF kids = <<>> THEN [s |-> NoNode, calls |-> {}]
    ELSE LET h == _create_simplified_tree(Head(kids))
         IN  IF ~IsNone(h.s) THEN h
             ELSE LET r == SimplifyFirst(Tail(kids))
                  IN  [s |-> r.s, calls |-> h.calls \cup r.calls]

\* _create_simplified_tree with a shadow root dropped when nothing in it survives
_create_simplified_tree_EmptyFragmentDropped(n) ==
    LET node == dom.node[n]
        kids == ChildrenAndShadowRoots(n)
        none == [s |-> NoNode, calls |-> {}]
    IN  CASE node.node_type = "DOCUMENT" -> SimplifyFirst(kids)
          [] node.node_type = "FRAGMENT" ->
                LET r == SimplifyAll(kids)
                IN  IF r.list = <<>> THEN [s |-> NoNode, calls |-> r.calls]
                    ELSE [s |-> SimplifiedNode(n, r.list, FALSE), calls |-> r.calls]
          [] node.node_type = "ELEMENT" ->
                IF node.tag_name \in DISABLED_ELEMENTS THEN none
                ELSE IF node.tag_name \in SVG_ELEMENTS THEN none
                ELSE IF ExcludedByAttribute(n) THEN none
                ELSE IF node.tag_name \in {"iframe", "frame"} /\ node.content_document THEN
                    LET r == SimplifyAll(kids)
                    IN  [s |-> SimplifiedNode(n, r.list, FALSE), calls |-> r.calls]
                ELSE
                    LET is_shadow_host ==
                            \E i \in 1..Len(kids) : dom.node[kids[i]].node_type = "FRAGMENT"
                        is_visible ==
                            \/ node.is_visible
                            \/ HasValidationAttrs(n)
                            \/ IsFileInput(n)
                        is_scrollable == node.is_actually_scrollable
                        has_shadow_content == kids # <<>>
                    IN  IF is_visible \/ is_scrollable \/ has_shadow_content \/ is_shadow_host
                        THEN
                            LET r == SimplifyAll(kids)
                                simplified ==
                                    [SimplifiedNode(n, r.list, is_shadow_host) EXCEPT
                                        !.is_compound_component =
                                            _add_compound_components(n) # <<>>]
                                calls == r.calls \cup {n}
                            IN  IF is_shadow_host /\ r.list # <<>>
                                THEN [s |-> simplified, calls |-> calls]
                                ELSE IF is_visible \/ is_scrollable \/ r.list # <<>>
                                THEN [s |-> simplified, calls |-> calls]
                                ELSE [s |-> NoNode, calls |-> calls]
                        ELSE none
          [] node.node_type = "TEXT" ->
                IF MeaningfulText(n)
                THEN [s |-> SimplifiedNode(n, <<>>, FALSE), calls |-> {}]
                ELSE none

\* [s: the SimplifiedNode or NoNode, calls: nodes whose _compound_children grew]
_create_simplified_tree(n) ==
    LET node == dom.node[n]
        kids == ChildrenAndShadowRoots(n)
        none == [s |-> NoNode, calls |-> {}]
    IN  CASE node.node_type = "DOCUMENT" -> SimplifyFirst(kids)
          [] node.node_type = "FRAGMENT" ->
                LET r == SimplifyAll(kids)
                IN  [s |-> SimplifiedNode(n, r.list, FALSE), calls |-> r.calls]
          [] node.node_type = "ELEMENT" ->
                IF node.tag_name \in DISABLED_ELEMENTS THEN none
                ELSE IF node.tag_name \in SVG_ELEMENTS THEN none
                ELSE IF ExcludedByAttribute(n) THEN none
                ELSE IF node.tag_name \in {"iframe", "frame"} /\ node.content_document THEN
                    LET r == SimplifyAll(kids)
                    IN  [s |-> SimplifiedNode(n, r.list, FALSE), calls |-> r.calls]
                ELSE
                    LET is_shadow_host ==
                            \E i \in 1..Len(kids) : dom.node[kids[i]].node_type = "FRAGMENT"
                        is_visible ==
                            \/ node.is_visible
                            \/ HasValidationAttrs(n)
                            \/ IsFileInput(n)
                        is_scrollable == node.is_actually_scrollable
                        has_shadow_content == kids # <<>>
                    IN  IF is_visible \/ is_scrollable \/ has_shadow_content \/ is_shadow_host
                        THEN
                            LET r == SimplifyAll(kids)
                                simplified ==
                                    [SimplifiedNode(n, r.list, is_shadow_host) EXCEPT
                                        !.is_compound_component =
                                            _add_compound_components(n) # <<>>]
                                calls == r.calls \cup {n}
                            IN  IF is_shadow_host /\ r.list # <<>>
                                THEN [s |-> simplified, calls |-> calls]
                                ELSE IF is_visible \/ is_scrollable \/ r.list # <<>>
                                THEN [s |-> simplified, calls |-> calls]
                                ELSE [s |-> NoNode, calls |-> calls]
                        ELSE none
          [] node.node_type = "TEXT" ->
                IF MeaningfulText(n)
                THEN [s |-> SimplifiedNode(n, <<>>, FALSE), calls |-> {}]
                ELSE none


\* ------------------------------------------------------------------------
\* Step 2: PaintOrderRemover(simplified_tree).calculate_paint_order()
\* ------------------------------------------------------------------------
RECURSIVE calculate_paint_order(_)
RECURSIVE PaintAll(_)

PaintAll(kids) ==
    IF kids = <<>> THEN <<>>
    ELSE <<calculate_paint_order(Head(kids))>> \o PaintAll(Tail(kids))

\* The occlusion annotator: it sets ignored_by_paint_order on the nodes it
\* finds covered, and nothing else.
calculate_paint_order(s) ==
    [s EXCEPT !.ignored_by_paint_order = dom.node[s.original_node].paint_ignored,
              !.children = PaintAll(s.children)]

\* ------------------------------------------------------------------------
\* Step 3: _optimize_tree
\* ------------------------------------------------------------------------
RECURSIVE _optimize_tree(_)
RECURSIVE OptimizeAll(_)

\* lines 604-610: the children that survive, in order
OptimizeAll(kids) ==
    IF kids = <<>> THEN <<>>
    ELSE LET h == _optimize_tree(Head(kids))
         IN  (IF IsNone(h) THEN <<>> ELSE <<h>>) \o OptimizeAll(Tail(kids))

\* _optimize_tree without the file-input exception of line 628
_optimize_tree_FileInputDropped(s) ==
    IF IsNone(s) THEN NoNode
    ELSE LET optimized_children == OptimizeAll(s.children)
             raw == dom.node[s.original_node]
             is_visible == raw.snapshot_node /\ raw.is_visible
         IN  IF \/ is_visible
                \/ raw.is_actually_scrollable
                \/ raw.node_type = "TEXT"
                \/ optimized_children # <<>>
             THEN [s EXCEPT !.children = optimized_children]
             ELSE NoNode

_optimize_tree(s) ==
    IF IsNone(s) THEN NoNode
    ELSE LET optimized_children == OptimizeAll(s.children)
             raw == dom.node[s.original_node]
             is_visible == raw.snapshot_node /\ raw.is_visible
         IN  IF \/ is_visible
                \/ raw.is_actually_scrollable
                \/ raw.node_type = "TEXT"
                \/ optimized_children # <<>>
                \/ IsFileInput(s.original_node)
             THEN [s EXCEPT !.children = optimized_children]
             ELSE NoNode

\* ------------------------------------------------------------------------
\* Step 4: _apply_bounding_box_filtering
\* ------------------------------------------------------------------------
\* 0.99, in percent
DEFAULT_CONTAINMENT_THRESHOLD == 99

\* PROPAGATING_ELEMENTS; a role of Null matches every role
PROPAGATING_ELEMENTS ==
    {[tag |-> "a", role |-> Null], [tag |-> "button", role |-> Null],
     [tag |-> "div", role |-> "button"], [tag |-> "div", role |-> "combobox"],
     [tag |-> "span", role |-> "button"], [tag |-> "span", role |-> "combobox"],
     [tag |-> "input", role |-> "combobox"]}

_is_propagating_element(tag, role) ==
    \E pattern \in PROPAGATING_ELEMENTS :
        /\ pattern.tag = Null \/ pattern.tag = tag
        /\ pattern.role = Null \/ pattern.role = role

Max2(a, b) == IF a >= b THEN a ELSE b
Min2(a, b) == IF a <= b THEN a ELSE b

\* _is_contained with the vertical overlap taken from the widths
_is_contained_HeightFromWidth(child, parent, threshold) ==
    LET x_overlap ==
            Max2(0, Min2(child.x + child.width, parent.x + parent.width)
                    - Max2(child.x, parent.x))
        y_overlap ==
            Max2(0, Min2(child.y + child.width, parent.y + parent.width)
                    - Max2(child.y, parent.y))
        intersection_area == x_overlap * y_overlap
        child_area == child.width * child.height
    IN  IF child_area = 0 THEN FALSE
        ELSE intersection_area * 100 >= threshold * child_area

\* threshold in percent: intersection_area / child_area >= threshold / 100
_is_contained(child, parent, threshold) ==
    LET x_overlap ==
            Max2(0, Min2(child.x + child.width, parent.x + parent.width)
                    - Max2(child.x, parent.x))
        y_overlap ==
            Max2(0, Min2(child.y + child.height, parent.y + parent.height)
                    - Max2(child.y, parent.y))
        intersection_area == x_overlap * y_overlap
        child_area == child.width * child.height
    IN  IF child_area = 0 THEN FALSE
        ELSE intersection_area * 100 >= threshold * child_area

\* active_bounds is None
NoBounds == [tag |-> Null, bounds |-> NullRect, node_id |-> 0, depth |-> 0]

PropagatingBounds(tag, bounds, node_id, depth) ==
    [tag |-> tag, bounds |-> bounds, node_id |-> node_id, depth |-> depth]

\* _should_exclude_child with rule 4 satisfied by any aria-label at all
_should_exclude_child_AnyLabelKept(s, active_bounds) ==
    LET raw == dom.node[s.original_node]
    IN  IF raw.node_type = "TEXT" THEN FALSE
        ELSE IF ~raw.snapshot_node \/ raw.bounds = NullRect THEN FALSE
        ELSE IF ~_is_contained(raw.bounds, active_bounds.bounds, containment_threshold)
             THEN FALSE
        ELSE IF raw.tag_name \in {"input", "select", "textarea", "label"} THEN FALSE
        ELSE IF _is_propagating_element(raw.tag_name, AttrGet(raw.attributes, "role"))
             THEN FALSE
        ELSE IF AttrHas(raw.attributes, "onclick") THEN FALSE
        ELSE IF AttrHas(raw.attributes, "aria_label") THEN FALSE
        ELSE IF AttrGet(raw.attributes, "role") \in
                    {"button", "link", "checkbox", "radio", "tab", "menuitem", "option"}
             THEN FALSE
        ELSE TRUE

_should_exclude_child(s, active_bounds) ==
    LET raw == dom.node[s.original_node]
    IN  IF raw.node_type = "TEXT" THEN FALSE
        ELSE IF ~raw.snapshot_node \/ raw.bounds = NullRect THEN FALSE
        ELSE IF ~_is_contained(raw.bounds, active_bounds.bounds, containment_threshold)
             THEN FALSE
        ELSE IF raw.tag_name \in {"input", "select", "textarea", "label"} THEN FALSE
        ELSE IF _is_propagating_element(raw.tag_name, AttrGet(raw.attributes, "role"))
             THEN FALSE
        ELSE IF AttrHas(raw.attributes, "onclick") THEN FALSE
        ELSE IF AttrGet(raw.attributes, "aria_label") \notin {Null, "", " "} THEN FALSE
        ELSE IF AttrGet(raw.attributes, "role") \in
                    {"button", "link", "checkbox", "radio", "tab", "menuitem", "option"}
             THEN FALSE
        ELSE TRUE

\* lines 763-764 with the flag flipped instead of set
ExcludedAfter_Flipped(s, should_exclude) ==
    IF should_exclude THEN ~s.excluded_by_parent ELSE s.excluded_by_parent

\* lines 763-764: the flag is set when the test says so, and never cleared
ExcludedAfter(s, should_exclude) == s.excluded_by_parent \/ should_exclude

\* lines 768-784: the scope this node starts, NoBounds if it starts none
NewBounds(s, depth) ==
    LET raw == dom.node[s.original_node]
    IN  IF /\ _is_propagating_element(raw.tag_name, AttrGet(raw.attributes, "role"))
           /\ raw.snapshot_node /\ raw.bounds # NullRect
        THEN PropagatingBounds(raw.tag_name, raw.bounds, NodeId(s.original_node), depth)
        ELSE NoBounds

\* line 788 with the inherited scope kept while there is one
PropagateBounds_InheritedFirst(s, active_bounds, depth) ==
    IF active_bounds # NoBounds THEN active_bounds ELSE NewBounds(s, depth)

\* line 788: the scope the children are recursed with
PropagateBounds(s, active_bounds, depth) ==
    IF NewBounds(s, depth) # NoBounds THEN NewBounds(s, depth) ELSE active_bounds

RECURSIVE _filter_tree_recursive(_, _, _)
RECURSIVE FilterAll(_, _, _)

FilterAll(kids, propagate_bounds, depth) ==
    IF kids = <<>> THEN <<>>
    ELSE <<_filter_tree_recursive(Head(kids), propagate_bounds, depth)>>
         \o FilterAll(Tail(kids), propagate_bounds, depth)

_filter_tree_recursive(s, active_bounds, depth) ==
    LET raw == dom.node[s.original_node]
        excluded ==
            ExcludedAfter(s, active_bounds # NoBounds
                             /\ _should_exclude_child(s, active_bounds))
        propagate_bounds == PropagateBounds(s, active_bounds, depth)
    IN  [s EXCEPT !.excluded_by_parent = excluded,
                  !.children = FilterAll(s.children, propagate_bounds, depth + 1)]

RECURSIVE FilterCalls(_, _, _)
\* the calls of _filter_tree_recursive that one call on s makes, itself
\* included: <<raw node, active_bounds>> each
FilterCalls(s, active_bounds, depth) ==
    {<<s.original_node, active_bounds>>}
    \cup UNION {FilterCalls(s.children[i], PropagateBounds(s, active_bounds, depth),
                            depth + 1) : i \in 1..Len(s.children)}

_apply_bounding_box_filtering(s) ==
    IF IsNone(s) THEN NoNode ELSE _filter_tree_recursive(s, NoBounds, 0)


\* ------------------------------------------------------------------------
\* The clickability oracle and its cache
\* ------------------------------------------------------------------------
\* ClickableElementDetector.is_interactive(node): a pure function of the node
ClickableElementDetector_is_interactive(n) == dom.node[n].clickable

\* An empty dict
EmptyMap == [k \in {} |-> 0]

\* The run state the indexer threads through its recursion: the instance
\* fields it writes, and the record of what it did.
RunState(cache, map, counter) ==
    [clickable_cache |-> cache, selector_map |-> map, interactive_counter |-> counter,
     oracle_calls |-> [n \in RawNodes |-> 0], query_log |-> <<>>,
     index_visited |-> {}]

\* _is_interactive_cached without line 474
_is_interactive_cached_NotStored(st, n) ==
    LET result == ClickableElementDetector_is_interactive(n)
    IN  [st |-> [st EXCEPT !.oracle_calls[n] = @ + 1,
                           !.query_log = Append(@, <<n, result>>)],
         result |-> result]

\* [st: the run state afterwards, result: the answer]
_is_interactive_cached(st, n) ==
    IF NodeId(n) \notin DOMAIN st.clickable_cache
    THEN LET result == ClickableElementDetector_is_interactive(n)
         IN  [st |-> [st EXCEPT
                        !.clickable_cache = (NodeId(n) :> result) @@ st.clickable_cache,
                        !.oracle_calls[n] = @ + 1,
                        !.query_log = Append(@, <<n, result>>)],
              result |-> result]
    ELSE [st |-> [st EXCEPT
                    !.query_log = Append(@, <<n, st.clickable_cache[NodeId(n)]>>)],
          result |-> st.clickable_cache[NodeId(n)]]

RECURSIVE _has_interactive_descendants(_, _)
RECURSIVE HasInteractiveAmong(_, _)

\* the loop of lines 659-667 over the remaining children
HasInteractiveAmong(st, kids) ==
    IF kids = <<>> THEN [st |-> st, result |-> FALSE]
    ELSE LET own == _is_interactive_cached(st, Head(kids).original_node)
         IN  IF own.result THEN [st |-> own.st, result |-> TRUE]
             ELSE LET below == _has_interactive_descendants(own.st, Head(kids))
                  IN  IF below.result THEN below
                      ELSE HasInteractiveAmong(below.st, Tail(kids))

RECURSIVE DirectlyInteractiveAmong(_, _)
DirectlyInteractiveAmong(st, kids) ==
    IF kids = <<>> THEN [st |-> st, result |-> FALSE]
    ELSE LET own == _is_interactive_cached(st, Head(kids).original_node)
         IN  IF own.result THEN [st |-> own.st, result |-> TRUE]
             ELSE DirectlyInteractiveAmong(own.st, Tail(kids))

\* _has_interactive_descendants without the recursion of lines 663-665
_has_interactive_descendants_ChildrenOnly(st, s) ==
    DirectlyInteractiveAmong(st, s.children)

_has_interactive_descendants(st, s) == HasInteractiveAmong(st, s.children)

\* ------------------------------------------------------------------------
\* Step 5: _assign_interactive_indices_and_mark_new_nodes
\* ------------------------------------------------------------------------
\* {node.backend_node_id for node in self._previous_cached_selector_map.values()}
PreviousBackendNodeIds ==
    {BackendNodeId(previous_cached_selector_map.map[k]) :
        k \in DOMAIN previous_cached_selector_map.map}

\* lines 720-727 without the membership test of line 726
MarkNew_WheneverPreviousGiven(s) ==
    IF s.is_compound_component THEN TRUE
    ELSE IF /\ previous_cached_selector_map.supplied
            /\ DOMAIN previous_cached_selector_map.map # {}
         THEN TRUE
         ELSE s.is_new

\* lines 720-727 without the branch of line 721
MarkNew_CompoundDiffed(s) ==
    IF /\ previous_cached_selector_map.supplied
       /\ DOMAIN previous_cached_selector_map.map # {}
    THEN IF BackendNodeId(s.original_node) \notin PreviousBackendNodeIds
         THEN TRUE ELSE s.is_new
    ELSE s.is_new

\* lines 720-727: the is_new flag of a node that was just made interactive
MarkNew(s) ==
    IF s.is_compound_component THEN TRUE
    ELSE IF /\ previous_cached_selector_map.supplied
            /\ DOMAIN previous_cached_selector_map.map # {}
         THEN IF BackendNodeId(s.original_node) \notin PreviousBackendNodeIds
              THEN TRUE ELSE s.is_new
         ELSE s.is_new

\* line 683 without the test of excluded_by_parent
Eligible_IgnoresExclusion(s) == ~s.ignored_by_paint_order

\* line 683: the node may be given an index
Eligible(s) == ~s.excluded_by_parent /\ ~s.ignored_by_paint_order

\* lines 717-718, with the key the indexer of an earlier design used
MakeInteractive_KeyedByCounter(st, n) ==
    [st EXCEPT !.selector_map = (st.interactive_counter :> n) @@ st.selector_map,
               !.interactive_counter = @ + 1]

\* lines 717-718: the entry of the address table, and the counter
MakeInteractive(st, n) ==
    [st EXCEPT !.selector_map = (BackendNodeId(n) :> n) @@ st.selector_map,
               !.interactive_counter = @ + 1]

RECURSIVE _assign_interactive_indices_and_mark_new_nodes(_, _)
RECURSIVE AssignAll(_, _)

\* lines 730-731: [st, list: the children after the recursive calls]
AssignAll(st, kids) ==
    IF kids = <<>> THEN [st |-> st, list |-> <<>>]
    ELSE LET h == _assign_interactive_indices_and_mark_new_nodes(st, Head(kids))
             r == AssignAll(h.st, Tail(kids))
         IN  [st |-> r.st, list |-> <<h.s>> \o r.list]

\* [st: the run state afterwards, s: the node with its flags set]
_assign_interactive_indices_and_mark_new_nodes(st, s) ==
    IF IsNone(s) THEN [st |-> st, s |-> s]
    ELSE
    LET n == s.original_node
        raw == dom.node[n]
        st0 == [st EXCEPT !.index_visited = @ \cup {n}]
        eligible == Eligible(s)
        own == _is_interactive_cached(st0, n)
        is_visible == raw.snapshot_node /\ raw.is_visible
        is_scrollable == raw.is_actually_scrollable
        scan == IF is_scrollable THEN _has_interactive_descendants(own.st, s)
                ELSE [st |-> own.st, result |-> FALSE]
        should_make_interactive ==
            IF is_scrollable THEN ~scan.result
            ELSE own.result /\ (is_visible \/ IsFileInput(n))
        st1 == IF ~eligible THEN st0
               ELSE IF should_make_interactive
               THEN MakeInteractive(scan.st, n)
               ELSE scan.st
        marked == IF eligible /\ should_make_interactive
                  THEN [s EXCEPT !.is_interactive = TRUE, !.is_new = MarkNew(s)]
                  ELSE s
        below == AssignAll(st1, s.children)
    IN  [st |-> below.st, s |-> [marked EXCEPT !.children = below.list]]

\* ------------------------------------------------------------------------
\* serialize_tree
\* ------------------------------------------------------------------------
\* One line of the text.  node is the raw node that emitted it; the text of
\* the line is made of the other fields.
Line(n, depth, kind, shadow_prefix, marker, id, tag) ==
    [node |-> n, depth |-> depth, kind |-> kind, shadow_prefix |-> shadow_prefix,
     marker |-> marker, id |-> id, tag |-> tag, compound |-> <<>>, value |-> None]

\* the include_attributes the renderer is called with
include_attributes == {"value"}

\* str(value).strip() for the values of the model
Strip(value) ==
    CASE value = " " -> ""
      [] value = " typed " -> "typed"
      [] OTHER -> value

\* bool(value) for the optional strings of the model
Truthy(value) == value \notin {Null, ""}

RECURSIVE AxOverride(_, _)
\* lines 1209-1221: the loop over the accessibility properties
AxOverride(properties, current) ==
    IF properties = <<>> THEN current
    ELSE LET prop == Head(properties)
         IN  IF prop.name = "valuetext" /\ Truthy(prop.value)
             THEN IF Strip(prop.value) # "" THEN Some(Strip(prop.value))
                  ELSE AxOverride(Tail(properties), current)
             ELSE IF prop.name = "value" /\ Truthy(prop.value)
             THEN IF Strip(prop.value) # "" THEN Some(Strip(prop.value))
                  ELSE AxOverride(Tail(properties), current)
             ELSE AxOverride(Tail(properties), current)

RECURSIVE AxIncluded(_, _)
\* lines 1190-1202, for the key 'value'
AxIncluded(properties, current) ==
    IF properties = <<>> THEN current
    ELSE LET prop == Head(properties)
         IN  IF /\ prop.name = "value" /\ prop.name \in include_attributes
                /\ prop.value # Null /\ Strip(prop.value) # ""
             THEN AxIncluded(Tail(properties), Some(Strip(prop.value)))
             ELSE AxIncluded(Tail(properties), current)

\* _build_attributes_string: the value attribute of the line, None if the
\* line has none
ValueAttribute(n) ==
    LET raw == dom.node[n]
        from_dom ==
            IF /\ "value" \in include_attributes
               /\ AttrHas(raw.attributes, "value")
               /\ Strip(raw.attributes.value) # ""
            THEN Some(Strip(raw.attributes.value)) ELSE None
        from_ax == AxIncluded(raw.ax_properties, from_dom)
    IN  IF raw.tag_name \in {"input", "textarea", "select"}
        THEN AxOverride(raw.ax_properties, from_ax)
        ELSE from_ax

\* lines 976-986: the parts of one group; a part that is left out is None
CompoundParts(child_info) ==
    [name |-> IF child_info.name # "" THEN Some(child_info.name) ELSE None,
     role |-> IF child_info.role # "" THEN Some(child_info.role) ELSE None,
     min |-> child_info.valuemin,
     max |-> child_info.valuemax,
     current |-> child_info.valuenow]

NoParts == [name |-> None, role |-> None, min |-> None, max |-> None, current |-> None]

RECURSIVE CompoundInfo(_)
\* lines 973-1001: the groups of compound_components=..., in order
CompoundInfo(children) ==
    IF children = <<>> THEN <<>>
    ELSE (IF CompoundParts(Head(children)) # NoParts
          THEN <<CompoundParts(Head(children))>> ELSE <<>>)
         \o CompoundInfo(Tail(children))

\* lines 933-939 and 1011-1017
ShadowPrefix(s) ==
    IF ~s.is_shadow_host THEN ""
    ELSE IF \E i \in 1..Len(s.children) :
                /\ dom.node[s.children[i].original_node].node_type = "FRAGMENT"
                /\ Lower(dom.node[s.children[i].original_node].shadow_root_type) = "closed"
         THEN "|SHADOW(closed)|" ELSE "|SHADOW(open)|"

\* line 911 with the depth of an ordinary emitted parent
ExcludedChildDepth_Indented(depth) == depth + 1

\* line 911: the depth at which the children of an excluded node are rendered
ExcludedChildDepth(depth) == depth

\* lines 956-963 with the scrollability hint left out
EmitsElementLine_ActuallyScrollableOnly(s) ==
    LET raw == dom.node[s.original_node]
    IN  \/ s.is_interactive
        \/ raw.is_actually_scrollable
        \/ raw.tag_name \in {"iframe", "frame"}

\* lines 956-963: the element gets a line of its own
EmitsElementLine(s) ==
    LET raw == dom.node[s.original_node]
    IN  \/ s.is_interactive
        \/ raw.is_actually_scrollable \/ raw.is_scrollable
        \/ raw.tag_name \in {"iframe", "frame"}

RECURSIVE serialize_tree(_, _)
RECURSIVE SerializeAll(_, _)

\* the children's texts, joined: [lines, visited]
SerializeAll(kids, depth) ==
    IF kids = <<>> THEN [lines |-> <<>>, visited |-> {}]
    ELSE LET h == serialize_tree(Head(kids), depth)
             r == SerializeAll(Tail(kids), depth)
         IN  [lines |-> h.lines \o r.lines, visited |-> h.visited \cup r.visited]

\* [lines: the text, line by line; visited: the raw nodes it was called on]
serialize_tree(s, depth) ==
    IF IsNone(s) THEN [lines |-> <<>>, visited |-> {}]
    ELSE
    LET n == s.original_node
        raw == dom.node[n]
        id == BackendNodeId(n)
        with(own, below) ==
            [lines |-> own \o below.lines, visited |-> {n} \cup below.visited]
    IN  IF s.excluded_by_parent
        THEN with(<<>>, SerializeAll(s.children, ExcludedChildDepth(depth)))
        ELSE IF raw.node_type = "ELEMENT" THEN
            IF ~s.should_display THEN with(<<>>, SerializeAll(s.children, depth))
            ELSE IF raw.tag_name = "svg" THEN
                [lines |-> <<[Line(n, depth, "svg", ShadowPrefix(s),
                                   IF s.is_interactive
                                   THEN (IF s.is_new THEN "*[" ELSE "[") ELSE "",
                                   IF s.is_interactive THEN id ELSE 0, "svg")
                              EXCEPT !.value = ValueAttribute(n)]>>,
                 visited |-> {n}]
            ELSE IF EmitsElementLine(s)
            THEN
                LET marker ==
                        IF raw.should_show_scroll_info /\ ~s.is_interactive THEN "|SCROLL|"
                        ELSE IF s.is_interactive THEN
                            (IF s.is_new THEN "*" ELSE "")
                            \o (IF raw.should_show_scroll_info THEN "|SCROLL[" ELSE "[")
                        ELSE IF raw.tag_name = "iframe" THEN "|IFRAME|"
                        ELSE IF raw.tag_name = "frame" THEN "|FRAME|"
                        ELSE ""
                IN  with(<<[Line(n, depth, "element", ShadowPrefix(s), marker,
                                 IF s.is_interactive THEN id ELSE 0, raw.tag_name)
                             EXCEPT !.compound = CompoundInfo(compound_children[n]),
                                    !.value = ValueAttribute(n)]>>,
                         SerializeAll(s.children, depth + 1))
            ELSE with(<<>>, SerializeAll(s.children, depth))
        ELSE IF raw.node_type = "FRAGMENT" THEN
            LET header ==
                    IF Lower(raw.shadow_root_type) = "closed"
                    THEN Line(n, depth, "Closed Shadow", "", "", 0, "")
                    ELSE Line(n, depth, "Open Shadow", "", "", 0, "")
                below == SerializeAll(s.children, depth + 1)
                footer ==
                    IF s.children # <<>>
                    THEN <<Line(n, depth, "Shadow End", "", "", 0, "")>> ELSE <<>>
            IN  [lines |-> <<header>> \o below.lines \o footer,
                 visited |-> {n} \cup below.visited]
        ELSE IF raw.node_type = "TEXT" THEN
            with(IF MeaningfulText(n)
                 THEN <<Line(n, depth, "text", "", "", 0, raw.node_value)>> ELSE <<>>,
                 SerializeAll(s.children, depth))
        ELSE with(<<>>, SerializeAll(s.children, depth))

\* The text itself: the lines without the record of who emitted them.
Text(lines) ==
    [i \in 1..Len(lines) |->
        [depth |-> lines[i].depth, kind |-> lines[i].kind,
         shadow_prefix |-> lines[i].shadow_prefix, marker |-> lines[i].marker,
         id |-> lines[i].id, tag |-> lines[i].tag, compound |-> lines[i].compound,
         value |-> lines[i].value]]


\* ------------------------------------------------------------------------
\* The raw trees the serializer is given
\* ------------------------------------------------------------------------
Tree(parents, names) ==
    [parent |-> parents, node |-> [i \in 1..Len(names) |-> Profile(names[i])]]

\* The node kinds of the exhaustively generated trees.
GeneratedProfiles ==
    {"hidden", "button", "span", "file", "scroll", "text", "fragment", "range"}

\* Every tree shape on k nodes: node 1 is the root, a node's parent precedes it.
ParentVectors(k) ==
    {p \in [1..k -> 0..(k - 1)] : p[1] = 0 /\ \A i \in 2..k : p[i] \in 1..(i - 1)}

\* What a DOM can look like: only elements and shadow roots have children,
\* <input> has none, a shadow root hangs off an element.
WellFormed(t) ==
    /\ t.node[1].node_type \in {"ELEMENT", "DOCUMENT"}
    /\ \A i \in 2..Len(t.parent) :
        /\ t.node[i].node_type # "DOCUMENT"
        /\ t.node[t.parent[i]].node_type \in {"ELEMENT", "FRAGMENT", "DOCUMENT"}
        /\ t.node[t.parent[i]].tag_name # "input"
        /\ t.node[i].node_type = "FRAGMENT" => t.node[t.parent[i]].node_type = "ELEMENT"

GeneratedTrees ==
    {t \in {Tree(p, names) : p \in ParentVectors(MaxNodes),
                             names \in [1..MaxNodes -> GeneratedProfiles]} :
        WellFormed(t)}

\* Larger trees, one for each interplay of the stages.
ScenarioTrees ==
    {\* a document around a button that holds a covered span and a labelled one
     Tree(<<0, 1, 2, 2, 2>>, <<"document", "button", "span", "span_aria", "text">>),
     \* a shadow root inside a button, its only child contained in the button
     Tree(<<0, 1, 2>>, <<"button", "fragment", "span">>),
     Tree(<<0, 1, 2, 3>>, <<"button", "fragment", "div", "span_apart">>),
     \* a shadow host whose light child hosts a closed shadow root
     Tree(<<0, 1, 1, 3, 4>>, <<"button", "fragment", "div", "fragment_closed", "text">>),
     \* scroll containers, nested, with and without clickable content
     Tree(<<0, 1, 2, 3>>, <<"scroll", "scroll", "div", "span">>),
     Tree(<<0, 1, 2, 2>>, <<"scroll_click", "div", "hidden", "text">>),
     Tree(<<0, 1, 2, 3>>, <<"scroll", "button", "span", "covered">>),
     \* elements that get a line without being interactive
     Tree(<<0, 1, 2>>, <<"div", "scroll_hint", "span">>),
     Tree(<<0, 1, 2>>, <<"div", "iframe", "button">>),
     Tree(<<0, 1, 2>>, <<"div", "frame", "text">>),
     \* hidden file inputs, alone, wrapped, inside a button, excluded by attribute
     Tree(<<0, 1, 2>>, <<"hidden", "hidden", "file">>),
     Tree(<<0, 1, 2, 1>>, <<"hidden", "hidden", "file", "fragment">>),
     Tree(<<0, 1, 2, 2>>, <<"div", "button", "file", "span_straddle">>),
     Tree(<<0, 1, 1>>, <<"div", "file_excluded", "span">>),
     Tree(<<0, 1, 2>>, <<"div", "div_excluded", "file">>),
     \* an svg with content below it, beside and inside a button
     Tree(<<0, 1, 2>>, <<"button", "svg", "span_apart">>),
     Tree(<<0, 1, 2, 3>>, <<"div", "svg", "button", "span">>),
     Tree(<<0, 1, 2, 3, 4>>, <<"div", "svg", "button", "div", "span_apart">>),
     \* a compound control next to plain ones
     Tree(<<0, 1, 1, 1>>, <<"div", "range", "span_apart", "covered">>),
     \* propagating elements nested: one with a rectangle of its own, one
     \* without, and one without under no scope at all
     Tree(<<0, 1, 2, 1, 4>>, <<"button", "link_apart", "div", "button_unlaid", "div">>),
     Tree(<<0, 1, 2>>, <<"div", "button_unlaid", "div">>),
     \* compound controls that are covered, or hidden and kept for a label
     Tree(<<0, 1, 1, 1>>, <<"div", "range_covered", "range_hidden", "range">>)}

Trees == GeneratedTrees \cup ScenarioTrees

\* ------------------------------------------------------------------------
\* Initial state: a raw tree, and no serializer yet
\* ------------------------------------------------------------------------
\* previous_cached_state is None
NotSupplied == [supplied |-> FALSE, map |-> EmptyMap]

\* previous_cached_state with the given selector_map
Supplied(map) == [supplied |-> TRUE, map |-> map]

\* No SerializedDOMState yet
NoResult == [root |-> NoNode, selector_map |-> EmptyMap, valid |-> FALSE]

NoText == [lines |-> <<>>, visited |-> {}]

\* No call of _is_contained on its own
NoGeometry == [phase |-> "none"]

Init ==
    /\ dom \in Trees
    /\ session_id = "s1"
    /\ compound_children = [n \in 1..Len(dom.node) |-> <<>>]
    /\ pc = "none"
    /\ enable_bbox_filtering = TRUE
    /\ paint_order_filtering = TRUE
    /\ containment_threshold = DEFAULT_CONTAINMENT_THRESHOLD
    /\ previous_cached_selector_map = NotSupplied
    /\ interactive_counter = 1
    /\ selector_map = EmptyMap
    /\ clickable_cache = EmptyMap
    /\ timing_info = EmptyMap
    /\ simplified_tree = NoNode
    /\ optimized_tree = NoNode
    /\ returned = NoResult
    /\ rendered = NoText
    /\ runs = 0
    /\ calls_on_instance = 0
    /\ oracle_calls = [n \in 1..Len(dom.node) |-> 0]
    /\ query_log = <<>>
    /\ index_visited = {}
    /\ tables = <<>>
    /\ self_table = 0
    /\ previous_table = 0
    /\ held = <<>>
    /\ geometry = NoGeometry

\* ------------------------------------------------------------------------
\* __init__
\* ------------------------------------------------------------------------
\* The previous states a caller can pass: none, one whose table is empty, or
\* the state the last run returned.
PreviousChoices ==
    {NotSupplied, Supplied(EmptyMap), Supplied(BackendNodeId(1) :> 1)}
    \cup (IF returned.valid THEN {Supplied(returned.selector_map)} ELSE {})

\* One dict object the caller holds, and what it held when the caller got it
Held(ref, contents) == [ref |-> ref, contents |-> contents]

\* line 135 with the dict emptied in place
NewTable_ClearedInPlace(heap, ref) ==
    [heap |-> [heap EXCEPT ![ref] = EmptyMap], ref |-> ref]

\* line 135: self._selector_map = {} binds the field to a new dict
NewTable(heap, ref) == [heap |-> Append(heap, EmptyMap), ref |-> Len(heap) + 1]

\* the containment_threshold argument, in percent; 0 stands for None
ThresholdArguments == {0}

Construct(previous, bbox, paint, threshold) ==
    /\ pc \in {"none", "returned", "rendered"}
    /\ runs < MaxRuns
    /\ pc' = "ready"
    /\ interactive_counter' = 1
    /\ selector_map' = EmptyMap
    /\ previous_cached_selector_map' = previous
    /\ timing_info' = EmptyMap
    /\ clickable_cache' = EmptyMap
    /\ enable_bbox_filtering' = bbox
    /\ containment_threshold' =
            IF threshold = 0 THEN DEFAULT_CONTAINMENT_THRESHOLD ELSE threshold
    /\ paint_order_filtering' = paint
    /\ calls_on_instance' = 0
    \* the caller has handed its last state over, and holds nothing of the
    \* new instance yet
    /\ returned' = NoResult
    /\ rendered' = NoText
    /\ simplified_tree' = NoNode
    /\ optimized_tree' = NoNode
    /\ oracle_calls' = [n \in RawNodes |-> 0]
    /\ query_log' = <<>>
    /\ index_visited' = {}
    \* the objects the last instance made are the caller's, or garbage: what
    \* is left is the previous table, if one is passed, and the new table
    /\ LET passed == IF previous.supplied THEN <<previous.map>> ELSE <<>>
       IN  /\ tables' = Append(passed, EmptyMap)
           /\ self_table' = Len(passed) + 1
           /\ previous_table' = Len(passed)
           /\ held' = IF previous.supplied THEN <<Held(1, previous.map)>> ELSE <<>>
    /\ UNCHANGED <<dom, session_id, compound_children, runs, geometry>>

\* ------------------------------------------------------------------------
\* serialize_accessible_elements
\* ------------------------------------------------------------------------
\* lines 131-137: the reset of the run state
SerializeStart ==
    /\ pc \in {"ready", "returned", "rendered"}
    /\ runs < MaxRuns
    /\ pc' = "running"
    /\ interactive_counter' = 1
    /\ selector_map' = EmptyMap
    /\ clickable_cache' = EmptyMap
    /\ runs' = runs + 1
    /\ calls_on_instance' = calls_on_instance + 1
    /\ oracle_calls' = [n \in RawNodes |-> 0]
    /\ query_log' = <<>>
    /\ index_visited' = {}
    /\ simplified_tree' = NoNode
    /\ optimized_tree' = NoNode
    /\ rendered' = NoText
    /\ LET fresh == NewTable(tables, self_table)
       IN  /\ tables' = fresh.heap
           /\ self_table' = fresh.ref
    /\ UNCHANGED <<dom, session_id, compound_children, enable_bbox_filtering,
                   paint_order_filtering, containment_threshold,
                   previous_cached_selector_map, timing_info, returned,
                   previous_table, held, geometry>>

\* dict[key] = value
Put(map, key, value) == (key :> value) @@ map

\* The clock of the model: one invocation of the oracle takes one tick, the
\* rest takes none.  Lines 143-174 and 470-472 with that clock.
TimingAfter(info, ticks, filtered) ==
    LET t1 == Put(info, "create_simplified_tree", 0)
        t2 == Put(t1, "calculate_paint_order", 0)
        t3 == Put(t2, "optimize_tree", 0)
        t4 == IF filtered THEN Put(t3, "bbox_filtering", 0) ELSE t3
        t5 == IF ticks = 0 THEN t4
              ELSE Put(t4, "clickable_detection_time",
                       (IF "clickable_detection_time" \in DOMAIN t4
                        THEN t4["clickable_detection_time"] ELSE 0) + ticks)
        t6 == Put(t5, "assign_interactive_indices", ticks)
    IN  Put(t6, "serialize_accessible_elements_total", ticks)

RECURSIVE SumCalls(_, _)
SumCalls(f, k) == IF k = 0 THEN 0 ELSE f[k] + SumCalls(f, k - 1)

\* lines 139-176: the five stages and the return
SerializeFinish ==
    /\ pc = "running"
    /\ LET step1 == _create_simplified_tree(1)
           painted == IF paint_order_filtering /\ ~IsNone(step1.s)
                      THEN calculate_paint_order(step1.s) ELSE step1.s
           optimized == _optimize_tree(painted)
           do_filter == enable_bbox_filtering /\ ~IsNone(optimized)
           filtered == IF do_filter THEN _apply_bounding_box_filtering(optimized)
                       ELSE optimized
           indexed == _assign_interactive_indices_and_mark_new_nodes(
                          RunState(clickable_cache, selector_map, interactive_counter),
                          filtered)
       IN  /\ compound_children' =
                [n \in RawNodes |->
                    IF n \in step1.calls
                    THEN compound_children[n] \o _add_compound_components(n)
                    ELSE compound_children[n]]
           /\ simplified_tree' = step1.s
           /\ optimized_tree' = optimized
           /\ clickable_cache' = indexed.st.clickable_cache
           /\ selector_map' = indexed.st.selector_map
           /\ interactive_counter' = indexed.st.interactive_counter
           /\ oracle_calls' = indexed.st.oracle_calls
           /\ query_log' = indexed.st.query_log
           /\ index_visited' = indexed.st.index_visited
           /\ timing_info' =
                TimingAfter(timing_info, SumCalls(indexed.st.oracle_calls, Len(dom.node)),
                            do_filter)
           /\ returned' = [root |-> indexed.s, selector_map |-> indexed.st.selector_map,
                           valid |-> TRUE]
           \* line 717 writes into the dict the field is bound to, and that
           \* dict is the one handed to the caller (line 176)
           /\ tables' = [tables EXCEPT ![self_table] = indexed.st.selector_map]
           /\ held' = Append(held, Held(self_table, indexed.st.selector_map))
    /\ pc' = "returned"
    /\ UNCHANGED <<dom, session_id, enable_bbox_filtering, paint_order_filtering,
                   containment_threshold, previous_cached_selector_map, rendered, runs,
                   calls_on_instance, self_table, previous_table, geometry>>

\* ------------------------------------------------------------------------
\* serialize_tree, called by the holder of the returned state
\* ------------------------------------------------------------------------
SerializeTree ==
    /\ pc = "returned"
    /\ rendered' = serialize_tree(returned.root, 0)
    /\ pc' = "rendered"
    /\ UNCHANGED <<dom, session_id, compound_children, enable_bbox_filtering,
                   paint_order_filtering, containment_threshold,
                   previous_cached_selector_map, interactive_counter, selector_map,
                   clickable_cache, timing_info, simplified_tree, optimized_tree,
                   returned, runs, calls_on_instance, oracle_calls, query_log,
                   index_visited, tables, self_table, previous_table, held,
                   geometry>>

Next ==
    \/ \E previous \in PreviousChoices, bbox \in BOOLEAN, paint \in BOOLEAN,
          threshold \in ThresholdArguments :
            Construct(previous, bbox, paint, threshold)
    \/ SerializeStart
    \/ SerializeFinish
    \/ SerializeTree

Spec == Init /\ [][Next]_vars

\* ------------------------------------------------------------------------
\* The filter on one candidate: a button and, inside it, one node of every
\* make the exception rules tell apart
\* ------------------------------------------------------------------------
ZeroArea == Rect(2, 2, 0, 4)

CandidateTags == {"span", "div", "label", "input", "a"}
CandidateRoles == {Null, "button", "link", "combobox", "presentation"}
CandidateOnclick == {Null, ""}
CandidateLabels == {Null, " ", "Close"}
CandidateBounds == {Inner, Apart, Straddle, ZeroArea, NullRect}

Candidate(tag, role, onclick, aria_label, bounds) ==
    [PlainDiv EXCEPT !.tag_name = tag, !.bounds = bounds, !.clickable = TRUE,
                     !.attributes = [NoAttributes EXCEPT !.role = role,
                                                         !.onclick = onclick,
                                                         !.aria_label = aria_label]]

\* values of data-browser-use-exclude-<session_id> and data-browser-use-exclude
SessionExcludeValues == {Null, "", "true", "TRUE", "false"}
LegacyExcludeValues == {Null, "true", "True", "false"}

ExclusionCandidates ==
    {[PlainDiv EXCEPT !.attributes = [NoAttributes EXCEPT !.exclude_session = a,
                                                          !.exclude_legacy = b]] :
        a \in SessionExcludeValues, b \in LegacyExcludeValues}

\* values of the min and max attributes
MinValues == {Null, "", "abc", "10"}
MaxValues == {Null, "", "abc", "50"}

NumericCandidates ==
    {[PlainDiv EXCEPT !.tag_name = "input", !.clickable = TRUE,
                      !.attributes = [NoAttributes EXCEPT !.type = type,
                                                          !.min = min, !.max = max]] :
        type \in {"range", "number"}, min \in MinValues, max \in MaxValues}

\* accessibility property lists: valuetext and value in both orders
Property(name, value) == [name |-> name, value |-> value]

PropertyLists ==
    {<<>>}
    \cup {<<Property("valuetext", a), Property("value", b)>> :
                a \in {Null, " ", "shown"}, b \in {Null, " typed "}}
    \cup {<<Property("value", b), Property("valuetext", a)>> :
                a \in {Null, " ", "shown"}, b \in {Null, " typed "}}

FormCandidates ==
    {[PlainDiv EXCEPT !.tag_name = tag, !.clickable = TRUE,
                      !.attributes = [NoAttributes EXCEPT !.value = value],
                      !.ax_properties = properties] :
        tag \in {"input", "textarea", "select"}, value \in {Null, "dom"},
        properties \in PropertyLists}

CandidateTrees ==
    {[parent |-> <<0, 1>>, node |-> <<Profile("button"), c>>] :
        c \in {Candidate(tag, role, onclick, aria_label, bounds) :
                    tag \in CandidateTags, role \in CandidateRoles,
                    onclick \in CandidateOnclick, aria_label \in CandidateLabels,
                    bounds \in CandidateBounds}
              \cup {[Profile("text") EXCEPT !.bounds = Inner]}
              \cup ExclusionCandidates
              \cup NumericCandidates
              \cup FormCandidates}

\* the containment_threshold argument, in percent; 0 stands for None
CandidateThresholds == {0, 50, 100}

InitCandidates ==
    /\ dom \in CandidateTrees
    /\ session_id = "s1"
    /\ compound_children = [n \in 1..Len(dom.node) |-> <<>>]
    /\ pc = "none"
    /\ enable_bbox_filtering = TRUE
    /\ paint_order_filtering = TRUE
    /\ containment_threshold = DEFAULT_CONTAINMENT_THRESHOLD
    /\ previous_cached_selector_map = NotSupplied
    /\ interactive_counter = 1
    /\ selector_map = EmptyMap
    /\ clickable_cache = EmptyMap
    /\ timing_info = EmptyMap
    /\ simplified_tree = NoNode
    /\ optimized_tree = NoNode
    /\ returned = NoResult
    /\ rendered = NoText
    /\ runs = 0
    /\ calls_on_instance = 0
    /\ oracle_calls = [n \in 1..Len(dom.node) |-> 0]
    /\ query_log = <<>>
    /\ index_visited = {}
    /\ tables = <<>>
    /\ self_table = 0
    /\ previous_table = 0
    /\ held = <<>>
    /\ geometry = NoGeometry

NextCandidates ==
    \/ \E threshold \in CandidateThresholds :
            Construct(NotSupplied, TRUE, TRUE, threshold)
    \/ SerializeStart
    \/ SerializeFinish
    \/ SerializeTree

SpecCandidates == InitCandidates /\ [][NextCandidates]_vars

\* ------------------------------------------------------------------------
\* _is_contained on its own, over all small rectangles
\* ------------------------------------------------------------------------
\* Largest coordinate and largest side of the rectangles.
MaxCoord == 2

Rectangles ==
    {Rect(x, y, w, h) : x \in 0..MaxCoord, y \in 0..MaxCoord,
                        w \in 0..MaxCoord, h \in 0..MaxCoord}

\* thresholds in percent: 0, 0.01, 0.5 and 1
GeometryThresholds == {0, 1, 50, 100}

Offsets == {<<1, 0>>, <<2, 3>>}

Translate(r, offset) == [r EXCEPT !.x = @ + offset[1], !.y = @ + offset[2]]

InitGeometry ==
    /\ dom = Tree(<<0>>, <<"div">>)
    /\ session_id = "s1"
    /\ compound_children = [n \in 1..Len(dom.node) |-> <<>>]
    /\ pc = "none"
    /\ enable_bbox_filtering = TRUE
    /\ paint_order_filtering = TRUE
    /\ containment_threshold = DEFAULT_CONTAINMENT_THRESHOLD
    /\ previous_cached_selector_map = NotSupplied
    /\ interactive_counter = 1
    /\ selector_map = EmptyMap
    /\ clickable_cache = EmptyMap
    /\ timing_info = EmptyMap
    /\ simplified_tree = NoNode
    /\ optimized_tree = NoNode
    /\ returned = NoResult
    /\ rendered = NoText
    /\ runs = 0
    /\ calls_on_instance = 0
    /\ oracle_calls = [n \in 1..Len(dom.node) |-> 0]
    /\ query_log = <<>>
    /\ index_visited = {}
    /\ tables = <<>>
    /\ self_table = 0
    /\ previous_table = 0
    /\ held = <<>>
    /\ \E child \in Rectangles, parent \in Rectangles, threshold \in GeometryThresholds :
            geometry = [phase |-> "given", child |-> child, parent |-> parent,
                        threshold |-> threshold]

\* _is_contained(child, parent, threshold), and the same call with both
\* rectangles moved by the offset
Contain(offset) ==
    /\ geometry.phase = "given"
    /\ geometry' =
            [phase |-> "decided", child |-> geometry.child, parent |-> geometry.parent,
             threshold |-> geometry.threshold, offset |-> offset,
             contained |->
                _is_contained(geometry.child, geometry.parent, geometry.threshold),
             contained_moved |->
                _is_contained(Translate(geometry.child, offset),
                              Translate(geometry.parent, offset), geometry.threshold)]
    /\ UNCHANGED <<dom, session_id, compound_children, pc, enable_bbox_filtering,
                   paint_order_filtering, containment_threshold,
                   previous_cached_selector_map, interactive_counter, selector_map,
                   clickable_cache, timing_info, simplified_tree, optimized_tree,
                   returned, rendered, runs, calls_on_instance, oracle_calls,
                   query_log, index_visited, tables, self_table, previous_table,
                   held>>

NextGeometry == \E offset \in Offsets : Contain(offset)

SpecGeometry == InitGeometry /\ [][NextGeometry]_vars


\* ------------------------------------------------------------------------
\* Claims
\* ------------------------------------------------------------------------
\* a serialize call has returned and its result is in `returned`
Returned == pc \in {"returned", "rendered"}

ReturnedNodes == SubtreeNodes(returned.root)

InteractiveNodes == {s \in ReturnedNodes : s.is_interactive}

\* C1: after serialize_accessible_elements the returned address table and the
\* returned tree agree: every key is the backend id of exactly one interactive
\* node, and every interactive node's backend id is a key that maps to the
\* node's raw node.
C1_AddressTableAgreesWithTree ==
    Returned =>
        /\ \A k \in DOMAIN returned.selector_map :
            Cardinality({s \in InteractiveNodes : BackendNodeId(s.original_node) = k}) = 1
        /\ \A s \in InteractiveNodes :
            /\ BackendNodeId(s.original_node) \in DOMAIN returned.selector_map
            /\ returned.selector_map[BackendNodeId(s.original_node)] = s.original_node

\* C1 witness: a run returned a table of two entries or more
C1_Witness ==
    Returned /\ Cardinality(DOMAIN returned.selector_map) >= 2


ChildNodes(s) == {s.children[i].original_node : i \in 1..Len(s.children)}

ExcludedNodes == {s \in ReturnedNodes : s.excluded_by_parent}

RECURSIVE Splice(_, _)
RECURSIVE SpliceAll(_, _)

SpliceAll(kids, x) ==
    IF kids = <<>> THEN <<>>
    ELSE (IF Head(kids).original_node = x THEN Head(kids).children
          ELSE <<Splice(Head(kids), x)>>)
         \o SpliceAll(Tail(kids), x)

\* The tree s with the node of raw node x replaced, in its parent's child
\* list, by its own children in order.
Splice(s, x) == [s EXCEPT !.children = SpliceAll(s.children, x)]

\* The node of the returned tree that has s among its children.
ParentOf(s) == CHOOSE p \in ReturnedNodes : s.original_node \in ChildNodes(p)

\* C3 as stated: the text for a tree that holds an excluded node equals the
\* text for the tree with that node replaced by its children.
C3_SpliceRendersTheSame ==
    pc = "rendered" =>
        \A s \in ExcludedNodes :
            Text(serialize_tree(Splice(returned.root, s.original_node), 0).lines)
                = Text(rendered.lines)

\* The replacement empties the child list of a shadow root.
SpliceEmptiesShadowRoot(s) ==
    /\ dom.node[ParentOf(s).original_node].node_type = "FRAGMENT"
    /\ Len(ParentOf(s).children) = 1
    /\ s.children = <<>>

\* The replacement changes whether a shadow host has a closed shadow root
\* among its children.
SpliceChangesShadowMarker(s) ==
    ShadowPrefix(Splice(ParentOf(s), s.original_node)) # ShadowPrefix(ParentOf(s))

\* C3, amended: the two texts are equal unless the replacement empties the
\* child list of a shadow-root parent (which then loses its "Shadow End"
\* line) or changes whether a shadow-host parent has a closed shadow root
\* among its children (which changes the parent's |SHADOW(...)| marker).
C3_SpliceRendersTheSameUnlessParentReadsChildList ==
    pc = "rendered" =>
        \A s \in ExcludedNodes :
            ~SpliceEmptiesShadowRoot(s) /\ ~SpliceChangesShadowMarker(s) =>
                Text(serialize_tree(Splice(returned.root, s.original_node), 0).lines)
                    = Text(rendered.lines)

\* C3 witness: the text was rendered for a tree with an excluded node, outside
\* the two exceptions, below which a line is emitted
C3_Witness ==
    /\ pc = "rendered"
    /\ \E s \in ExcludedNodes :
        /\ ~SpliceEmptiesShadowRoot(s) /\ ~SpliceChangesShadowMarker(s)
        /\ serialize_tree(s, 1).lines # <<>>


\* C4: when a tree is serialized again with the earlier run's result as the
\* previous state, a node is flagged is_new only if it is a compound
\* component or its backend id is not the backend id of a value of the
\* earlier table.
C4_NewOnlyIfCompoundOrAbsent ==
    Returned /\ previous_cached_selector_map.supplied =>
        \A s \in ReturnedNodes :
            s.is_new =>
                \/ s.is_compound_component
                \/ BackendNodeId(s.original_node) \notin PreviousBackendNodeIds

\* C4 witness: a second run, given the first run's non-empty table, flags one
\* plain node new and leaves another interactive node unflagged
C4_Witness ==
    /\ Returned /\ runs = 2
    /\ previous_cached_selector_map.supplied
    /\ DOMAIN previous_cached_selector_map.map # {}
    /\ \E s \in InteractiveNodes : s.is_new /\ ~s.is_compound_component
    /\ \E s \in InteractiveNodes : ~s.is_new

\* C5 as stated: with a previous table supplied, empty or not, an interactive
\* node that is no compound component is flagged is_new exactly if its backend
\* id is absent from the previous table's values; with none supplied no such
\* node is flagged.
C5_NewIffAbsentFromSuppliedTable ==
    Returned =>
        \A s \in InteractiveNodes :
            ~s.is_compound_component =>
                IF previous_cached_selector_map.supplied
                THEN s.is_new <=>
                        BackendNodeId(s.original_node) \notin PreviousBackendNodeIds
                ELSE ~s.is_new

ExcludedSet(s) == {d.original_node : d \in {e \in SubtreeNodes(s) : e.excluded_by_parent}}

\* C6: applying _apply_bounding_box_filtering, with the same threshold, to a
\* tree it has already filtered leaves the set of excluded nodes as it is.
C6_FilterIdempotent ==
    Returned /\ enable_bbox_filtering =>
        ExcludedSet(_apply_bounding_box_filtering(returned.root))
            = ExcludedSet(returned.root)

\* C6 witness: the filter ran and excluded one node below the root and kept
\* another
C6_Witness ==
    /\ Returned /\ enable_bbox_filtering
    /\ ExcludedNodes # {}
    /\ \E s \in ReturnedNodes \ {returned.root} : ~s.excluded_by_parent

SimplifiedIds(s) == IF IsNone(s) THEN {} ELSE {d.original_node : d \in SubtreeNodes(s)}

\* the file inputs the claim is about: not visible, not scrollable, clickable
HiddenFileInputs ==
    {n \in RawNodes :
        /\ dom.node[n].node_type = "ELEMENT"
        /\ Lower(dom.node[n].tag_name) = "input"
        /\ AttrGet(dom.node[n].attributes, "type") = "file"
        /\ ~dom.node[n].is_visible
        /\ ~dom.node[n].is_actually_scrollable
        /\ ClickableElementDetector_is_interactive(n)}

SurvivesAndIsAddressed(n) ==
    /\ n \in SimplifiedIds(simplified_tree)
    /\ n \in SimplifiedIds(optimized_tree)
    /\ \E s \in ReturnedNodes :
        /\ s.original_node = n
        /\ ~s.excluded_by_parent
        /\ ~s.ignored_by_paint_order =>
            /\ s.is_interactive
            /\ \E k \in DOMAIN returned.selector_map :
                    returned.selector_map[k] = n

\* C8 as stated: every clickable file input that is neither visible nor
\* scrollable survives the simplifier and the optimizer, is not excluded by
\* the filter and, unless paint order ignores it, gets an index and a table
\* entry.
C8_HiddenFileInputSurvives ==
    Returned => \A n \in HiddenFileInputs : SurvivesAndIsAddressed(n)

RECURSIVE SimplifierReaches(_)
\* the simplifier is called on n: every ancestor is descended into, and below
\* a document no earlier sibling produced a result
SimplifierReaches(n) ==
    LET p == dom.parent[n]
    IN  IF p = 0 THEN TRUE
        ELSE /\ SimplifierReaches(p)
             /\ dom.node[p].node_type # "TEXT"
             /\ dom.node[p].node_type = "ELEMENT" =>
                    /\ ~ExcludedByAttribute(p)
                    /\ Lower(dom.node[p].tag_name) \notin DISABLED_ELEMENTS \cup SVG_ELEMENTS
             /\ dom.node[p].node_type = "DOCUMENT" =>
                    \A m \in RawNodes :
                        m < n /\ dom.parent[m] = p =>
                            IsNone(_create_simplified_tree(m).s)

\* C8: a clickable file input that is neither visible nor scrollable, that
\* the simplifier reaches and that carries no applicable exclusion attribute
\* equal to "true", survives the simplifier and the optimizer, is not excluded
\* by the filter and, unless paint order ignores it, gets an index and a table
\* entry.
C8_ReachedHiddenFileInputSurvives ==
    Returned =>
        \A n \in HiddenFileInputs :
            SimplifierReaches(n) /\ ~ExcludedByAttribute(n) =>
                SurvivesAndIsAddressed(n)

\* C8 witness: a hidden clickable file input inside a containing clickable
\* parent came through a run with the filter on and holds a table entry
C8_Witness ==
    /\ Returned /\ enable_bbox_filtering
    /\ \E n \in HiddenFileInputs :
        /\ dom.parent[n] # 0
        /\ ClickableElementDetector_is_interactive(dom.parent[n])
        /\ \E k \in DOMAIN returned.selector_map : returned.selector_map[k] = n

\* C9: within one run the clickability predicate is evaluated at most once
\* for a node, and every query about that node gets the same answer.
C9_OracleAtMostOncePerNode ==
    pc \in {"returned", "rendered"} =>
        /\ \A n \in RawNodes : oracle_calls[n] <= 1
        /\ \A i, j \in 1..Len(query_log) :
                query_log[i][1] = query_log[j][1] =>
                    query_log[i][2] = query_log[j][2]

\* C9 witness: a node was queried more than once in a run and the predicate
\* ran once for it
C9_Witness ==
    /\ Returned
    /\ \E i, j \in 1..Len(query_log) :
        /\ i < j
        /\ query_log[i][1] = query_log[j][1]
        /\ oracle_calls[query_log[i][1]] = 1

\* C10 as stated: when a serialization call has done its reset, the counter
\* is 1 and the address table, the clickability cache and the timing map are
\* empty, whatever earlier calls on the instance left.
C10_RunStartsFromCleanState ==
    pc = "running" =>
        /\ interactive_counter = 1
        /\ selector_map = EmptyMap
        /\ clickable_cache = EmptyMap
        /\ timing_info = EmptyMap


\* C11: the previous address table the caller passed in keeps its entries
\* through every run, and a table returned by an earlier call on the instance
\* is not changed by a later call: every dict the caller holds has the
\* contents it had when the caller got it.
C11_HeldTablesUnchanged ==
    \A i \in 1..Len(held) : tables[held[i].ref] = held[i].contents

\* C11 witness: a second call on an instance that was given a non-empty
\* previous table has returned, and the first call's table was not empty
C11_Witness ==
    /\ Returned /\ calls_on_instance = 2
    /\ previous_table # 0 /\ DOMAIN tables[previous_table] # {}
    /\ Len(held) = 3
    /\ DOMAIN held[2].contents # {}
    /\ held[2].ref # held[3].ref


\* the unit cells a rectangle covers
Cells(r) == (r.x .. (r.x + r.width - 1)) \X (r.y .. (r.y + r.height - 1))

\* the conditions the claim lists for a candidate raw node n against bounds
ClaimedExcluded(n, bounds) ==
    LET raw == dom.node[n]
        role == raw.attributes.role
    IN  /\ raw.node_type # "TEXT"
        /\ raw.snapshot_node /\ raw.bounds # NullRect
        /\ Cardinality(Cells(raw.bounds)) > 0
        /\ Cardinality(Cells(raw.bounds) \cap Cells(bounds)) * 100
                >= containment_threshold * Cardinality(Cells(raw.bounds))
        /\ raw.tag_name \notin {"input", "select", "textarea", "label"}
        /\ ~(raw.tag_name \in {"a", "button"})
        /\ ~(raw.tag_name \in {"div", "span"} /\ role \in {"button", "combobox"})
        /\ ~(raw.tag_name = "input" /\ role = "combobox")
        /\ raw.attributes.onclick = Null
        /\ raw.attributes.aria_label \in {Null, "", " "}
        /\ role \notin {"button", "link", "checkbox", "radio", "tab", "menuitem", "option"}

\* C12: _should_exclude_child says yes to a candidate against the bounds of
\* the button around it exactly if the candidate is no text node, has a
\* rectangle of non-zero area of which at least the threshold's share lies in
\* the bounds, is no form control, matches no propagating pattern, and has no
\* onclick, no non-blank aria-label and none of the interactive roles; and
\* the filter's flag on the candidate is that answer.
C12_ExcludedIffAllConditions ==
    LET active_bounds == PropagatingBounds("button", dom.node[1].bounds, NodeId(1), 0)
    IN  /\ \A n \in RawNodes :
            _should_exclude_child(SimplifiedNode(n, <<>>, FALSE), active_bounds)
                <=> ClaimedExcluded(n, dom.node[1].bounds)
        /\ Returned =>
            \A s \in Descendants(returned.root) :
                s.excluded_by_parent <=> ClaimedExcluded(s.original_node, dom.node[1].bounds)

\* C12 witness: the filter ran with the default threshold on a plain span
\* lying inside the button, and excluded it
C12_Witness ==
    /\ Returned /\ containment_threshold = DEFAULT_CONTAINMENT_THRESHOLD
    /\ dom.node[2] = [Profile("span") EXCEPT !.clickable = TRUE]
    /\ \E s \in Descendants(returned.root) : s.original_node = 2 /\ s.excluded_by_parent


\* C13: the answer of _is_contained does not change when both rectangles are
\* moved by the same offset; it is no for disjoint rectangles under a
\* threshold above 0, yes for a child of positive area that lies inside the
\* parent under a threshold of at most 1, and no for a child of area zero.
C13_ContainmentGeometry ==
    geometry.phase = "decided" =>
        LET child == Cells(geometry.child)
            parent == Cells(geometry.parent)
        IN  /\ geometry.contained_moved = geometry.contained
            /\ child \cap parent = {} /\ geometry.threshold > 0 => ~geometry.contained
            /\ child # {} /\ child \subseteq parent /\ geometry.threshold <= 100 =>
                    geometry.contained
            /\ child = {} => ~geometry.contained

\* C13 witness: a child of positive area strictly smaller than the parent it
\* lies in was judged contained at threshold 1, before and after the move
C13_Witness ==
    /\ geometry.phase = "decided"
    /\ geometry.threshold = 100
    /\ Cells(geometry.child) # {}
    /\ Cells(geometry.child) \subseteq Cells(geometry.parent)
    /\ Cells(geometry.child) # Cells(geometry.parent)
    /\ geometry.contained /\ geometry.contained_moved


RECURSIVE AncestorsOrSelf(_)
\* the raw node and the raw nodes above it
AncestorsOrSelf(n) == IF n = 0 THEN {} ELSE {n} \cup AncestorsOrSelf(dom.parent[n])

\* an exclusion attribute of the element is present and spells "true"
CarriesTrueExclusion(n) ==
    LET attributes == dom.node[n].attributes
    IN  /\ dom.node[n].node_type = "ELEMENT"
        /\ \/ attributes.exclude_session # Null /\ Lower(attributes.exclude_session) = "true"
           \/ attributes.exclude_legacy # Null /\ Lower(attributes.exclude_legacy) = "true"

\* C14 as stated: an element whose session-specific or legacy exclusion
\* attribute spells "true", whatever the other attribute holds, is rejected by
\* the simplifier with its whole subtree.
C14_TrueExclusionRejects ==
    Returned =>
        \A n \in RawNodes :
            CarriesTrueExclusion(n) =>
                \A m \in SimplifiedIds(simplified_tree) : n \notin AncestorsOrSelf(m)


\* C15: in serialize_tree an element that is not excluded, is to be displayed
\* and is no svg emits one element line at its depth, followed by its
\* children's text one level deeper, exactly if it is interactive, scrollable
\* by either signal, or an iframe or frame; otherwise its text is its
\* children's text at its own depth.
C15_ElementLineIffInteractiveScrollableOrFrame ==
    Returned =>
        \A s \in ReturnedNodes : \A depth \in 0..1 :
            LET raw == dom.node[s.original_node]
                out == serialize_tree(s, depth).lines
            IN  /\ raw.node_type = "ELEMENT"
                /\ ~s.excluded_by_parent /\ s.should_display
                /\ raw.tag_name # "svg"
                =>
                IF \/ s.is_interactive
                   \/ raw.is_actually_scrollable \/ raw.is_scrollable
                   \/ raw.tag_name \in {"iframe", "frame"}
                THEN /\ out # <<>>
                     /\ out[1].kind = "element" /\ out[1].node = s.original_node
                     /\ out[1].depth = depth
                     /\ Tail(out) = SerializeAll(s.children, depth + 1).lines
                ELSE out = SerializeAll(s.children, depth).lines

\* C15 witness: the rendered text holds the line of an element that is
\* neither interactive nor actually scrollable, and the next line lies one
\* level deeper
C15_Witness ==
    /\ pc = "rendered"
    /\ \E i \in 1..(Len(rendered.lines) - 1) :
        /\ rendered.lines[i].kind = "element"
        /\ rendered.lines[i].id = 0
        /\ ~dom.node[rendered.lines[i].node].is_actually_scrollable
        /\ dom.node[rendered.lines[i].node].is_scrollable
        /\ rendered.lines[i + 1].depth = rendered.lines[i].depth + 1


\* C16 as stated: every svg element of the tree given to serialize_tree gets
\* exactly one line, the collapsed svg line, and no node below it is visited
\* or emits a line, whatever flags the svg node carries.
C16_SvgAlwaysCollapsed ==
    pc = "rendered" =>
        \A s \in ReturnedNodes :
            /\ dom.node[s.original_node].node_type = "ELEMENT"
            /\ dom.node[s.original_node].tag_name = "svg"
            =>
            /\ Cardinality({i \in 1..Len(rendered.lines) :
                                /\ rendered.lines[i].node = s.original_node
                                /\ rendered.lines[i].kind = "svg"}) = 1
            /\ \A d \in Descendants(s) :
                /\ d.original_node \notin rendered.visited
                /\ \A i \in 1..Len(rendered.lines) :
                        rendered.lines[i].node # d.original_node


\* the raw nodes the optimizer kept
KeptIds == SimplifiedIds(optimized_tree)

\* what the optimizer may keep a childless node for
KeptOnItsOwn(n) ==
    \/ dom.node[n].snapshot_node /\ dom.node[n].is_visible
    \/ dom.node[n].is_actually_scrollable
    \/ dom.node[n].node_type = "TEXT"
    \/ dom.node[n].tag_name = "input" /\ dom.node[n].attributes.type = "file"

\* C17: the optimizer keeps a node of the simplified tree exactly if the node
\* is visible, actually scrollable, a text node or a file input, or one of
\* its children was kept; so every leaf of the optimized tree is one of the
\* four, and nothing below a dropped node is kept.
C17_OptimizerKeepsIff ==
    Returned =>
        /\ \A s \in SubtreeNodes(simplified_tree) :
            /\ s.original_node \in KeptIds <=>
                    \/ KeptOnItsOwn(s.original_node)
                    \/ \E i \in 1..Len(s.children) : s.children[i].original_node \in KeptIds
            /\ s.original_node \notin KeptIds =>
                    \A d \in Descendants(s) : d.original_node \notin KeptIds
        /\ \A s \in SubtreeNodes(optimized_tree) :
                s.children = <<>> => KeptOnItsOwn(s.original_node)

\* C17 witness: the optimizer dropped a node the simplifier had kept, and
\* kept an invisible element for the hidden file input below it
C17_Witness ==
    /\ Returned
    /\ \E s \in SubtreeNodes(simplified_tree) : s.original_node \notin KeptIds
    /\ \E s \in SubtreeNodes(optimized_tree) :
        /\ ~KeptOnItsOwn(s.original_node)
        /\ \E d \in Descendants(s) :
            /\ dom.node[d.original_node].tag_name = "input"
            /\ ~dom.node[d.original_node].is_visible


\* a child of raw node n for which the simplifier gives a node
HasSurvivingChild(n) ==
    \E i \in 1..Len(ChildrenAndShadowRoots(n)) :
        ~IsNone(_create_simplified_tree(ChildrenAndShadowRoots(n)[i]).s)

\* raw node n has a shadow root among its children
HostsShadowRoot(n) ==
    \E i \in 1..Len(ChildrenAndShadowRoots(n)) :
        dom.node[ChildrenAndShadowRoots(n)[i]].node_type = "FRAGMENT"

\* an element the simplifier neither rejects outright nor treats as a frame
OrdinaryElement(n) ==
    /\ dom.node[n].node_type = "ELEMENT"
    /\ dom.node[n].tag_name \notin DISABLED_ELEMENTS \cup SVG_ELEMENTS
    /\ ~ExcludedByAttribute(n)
    /\ ~(dom.node[n].tag_name \in {"iframe", "frame"} /\ dom.node[n].content_document)

\* C18: the simplifier gives a node for an ordinary element only if the
\* element is visible (natively, by an aria-/pseudo attribute, or as a file
\* input), actually scrollable, a shadow host, or has a surviving child; it
\* gives one for every shadow host with a surviving child; and it gives a
\* wrapper for every shadow root, with or without surviving children.
C18_SimplifierKeepsOnlyIf ==
    \A n \in RawNodes :
        LET raw == dom.node[n]
            result == _create_simplified_tree(n).s
        IN  /\ OrdinaryElement(n) /\ ~IsNone(result) =>
                \/ raw.is_visible
                \/ raw.attributes.aria_label # Null
                \/ raw.tag_name = "input" /\ raw.attributes.type = "file"
                \/ raw.is_actually_scrollable
                \/ HostsShadowRoot(n)
                \/ HasSurvivingChild(n)
            /\ OrdinaryElement(n) /\ HostsShadowRoot(n) /\ HasSurvivingChild(n) =>
                ~IsNone(result) /\ result.original_node = n
            /\ raw.node_type = "FRAGMENT" =>
                ~IsNone(result) /\ result.original_node = n

\* C18 witness: the simplified tree of a run holds an invisible shadow host
\* whose shadow root is a wrapper without children
C18_Witness ==
    /\ Returned
    /\ \E s \in SubtreeNodes(simplified_tree) :
        /\ ~dom.node[s.original_node].is_visible
        /\ s.is_shadow_host
        /\ \E i \in 1..Len(s.children) :
            /\ dom.node[s.children[i].original_node].node_type = "FRAGMENT"
            /\ s.children[i].children = <<>>


\* what the claim counts as a well-formed number, and its value
WellFormedNumber(value_str) == value_str \in {"10", "50"}
NumberValue(value_str) == IF value_str = "10" THEN 10 ELSE 50

\* the compound groups on the rendered line of raw node n
RenderedGroups(n) ==
    {rendered.lines[i].compound : i \in {j \in 1..Len(rendered.lines) :
                                            rendered.lines[j].node = n}}

\* C19: a range input gets one slider descriptor named Value whose valuemin
\* is the parsed min, or 0.0 if min is missing or malformed, and whose
\* valuemax is the parsed max, or 100.0; a number input gets a textbox
\* descriptor whose bounds are the parsed min and max, or None if missing,
\* empty or malformed, and a bound that is None is left out of the rendered
\* compound_components group.
C19_NumericParsingFailsSoft ==
    \A n \in RawNodes :
        LET attributes == dom.node[n].attributes
            children == _add_compound_components(n)
        IN  /\ dom.node[n].tag_name = "input" /\ attributes.type = "range" =>
                /\ Len(children) = 1
                /\ children[1].role = "slider" /\ children[1].name = "Value"
                /\ children[1].valuemin =
                        IF WellFormedNumber(attributes.min)
                        THEN <<NumberValue(attributes.min)>> ELSE <<0>>
                /\ children[1].valuemax =
                        IF WellFormedNumber(attributes.max)
                        THEN <<NumberValue(attributes.max)>> ELSE <<100>>
            /\ dom.node[n].tag_name = "input" /\ attributes.type = "number" =>
                /\ Len(children) = 3
                /\ children[3].role = "textbox"
                /\ children[3].valuemin =
                        IF WellFormedNumber(attributes.min)
                        THEN <<NumberValue(attributes.min)>> ELSE <<>>
                /\ children[3].valuemax =
                        IF WellFormedNumber(attributes.max)
                        THEN <<NumberValue(attributes.max)>> ELSE <<>>
                /\ pc = "rendered" =>
                    \A groups \in RenderedGroups(n) :
                        /\ groups # <<>>
                        /\ \A i \in 1..Len(groups) :
                            groups[i].role = <<"textbox">> =>
                                /\ groups[i].min = <<>> <=> ~WellFormedNumber(attributes.min)
                                /\ groups[i].max = <<>> <=> ~WellFormedNumber(attributes.max)

\* C19 witness: the rendered line of a number input with a malformed min and
\* a well-formed max shows a textbox group with max and without min
C19_Witness ==
    /\ pc = "rendered"
    /\ \E n \in RawNodes :
        /\ dom.node[n].attributes.type = "number"
        /\ dom.node[n].attributes.min = "abc"
        /\ \E groups \in RenderedGroups(n) : \E i \in 1..Len(groups) :
            /\ groups[i].role = <<"textbox">>
            /\ groups[i].min = <<>>
            /\ groups[i].max = <<50>>


\* the non-blank value of the accessibility property of that name, if any
AxValue(n, name) ==
    LET properties == dom.node[n].ax_properties
        found == {i \in 1..Len(properties) :
                    /\ properties[i].name = name
                    /\ properties[i].value \notin {Null, "", " "}}
    IN  IF found = {} THEN <<>>
        ELSE <<Strip(properties[CHOOSE i \in found : TRUE].value)>>

\* C20 as stated: on the line of an input, textarea or select the value
\* attribute is the accessibility valuetext if that is not blank, otherwise
\* the accessibility value if that is not blank, in whatever order the two
\* properties are listed, and only without both the DOM attribute's value.
C20_ValuetextPreferredInAnyOrder ==
    pc = "rendered" =>
        \A i \in 1..Len(rendered.lines) :
            LET n == rendered.lines[i].node
            IN  /\ rendered.lines[i].kind = "element"
                /\ dom.node[n].tag_name \in {"input", "textarea", "select"}
                =>
                rendered.lines[i].value =
                    IF AxValue(n, "valuetext") # <<>> THEN AxValue(n, "valuetext")
                    ELSE IF AxValue(n, "value") # <<>> THEN AxValue(n, "value")
                    ELSE IF dom.node[n].attributes.value # Null
                         THEN <<dom.node[n].attributes.value>> ELSE <<>>


\* C21 as stated: after the indexer every node of the returned tree that
\* bears compound components is flagged new, whatever table was supplied.
C21_CompoundAlwaysNew ==
    pc \in {"returned", "rendered"} =>
        \A s \in ReturnedNodes : s.is_compound_component => s.is_new

\* C21, amended: every node of the returned tree that bears compound
\* components and was made interactive is flagged new, whatever previous
\* table was supplied and whether or not its backend id was in it.
C21_InteractiveCompoundAlwaysNew ==
    pc \in {"returned", "rendered"} =>
        \A s \in ReturnedNodes :
            s.is_compound_component /\ s.is_interactive => s.is_new

\* a compound control that was in the supplied table is flagged new, next to
\* one that was not made interactive
C21_Witness ==
    /\ pc = "returned"
    /\ previous_cached_selector_map.supplied
    /\ \E s \in ReturnedNodes :
        /\ s.is_compound_component /\ s.is_interactive /\ s.is_new
        /\ BackendNodeId(s.original_node) \in PreviousBackendNodeIds
    /\ \E s \in ReturnedNodes :
        s.is_compound_component /\ ~s.is_interactive


RECURSIVE NearestPropagatingAncestor(_)
\* the nearest strict ancestor of raw node n that matches a propagating
\* pattern and has a layout rectangle, 0 if there is none
NearestPropagatingAncestor(n) ==
    LET p == dom.parent[n]
    IN  IF p = 0 THEN 0
        ELSE IF /\ _is_propagating_element(dom.node[p].tag_name,
                                           AttrGet(dom.node[p].attributes, "role"))
                /\ dom.node[p].snapshot_node /\ dom.node[p].bounds # NullRect
        THEN p
        ELSE NearestPropagatingAncestor(p)

\* the containment pass ran in the last run, over a tree
ContainmentPassRan ==
    /\ pc \in {"returned", "rendered"}
    /\ enable_bbox_filtering
    /\ ~IsNone(optimized_tree)

\* C22: in the containment pass every node is tested against the rectangle of
\* its nearest strict ancestor that is propagating and has a rectangle, and
\* against nothing if it has no such ancestor; the flag it ends up with is
\* the one the test against that rectangle gives.
C22_TestedAgainstNearestPropagatingAncestor ==
    ContainmentPassRan =>
        /\ \A call \in FilterCalls(optimized_tree, NoBounds, 0) :
            LET a == NearestPropagatingAncestor(call[1])
            IN  IF a = 0 THEN call[2] = NoBounds
                ELSE /\ call[2] # NoBounds
                     /\ call[2].bounds = dom.node[a].bounds
                     /\ call[2].node_id = NodeId(a)
        /\ \A s \in ReturnedNodes :
            LET a == NearestPropagatingAncestor(s.original_node)
            IN  s.excluded_by_parent <=>
                    /\ a # 0
                    /\ ClaimedExcluded(s.original_node, dom.node[a].bounds)

\* a propagating element with a rectangle under another one took the scope
\* over, and one without a rectangle passed the scope it inherited on
C22_Witness ==
    /\ ContainmentPassRan
    /\ \E s \in ReturnedNodes :
        LET a == NearestPropagatingAncestor(s.original_node)
        IN  /\ a # 0 /\ NearestPropagatingAncestor(a) # 0
            /\ dom.node[s.original_node].tag_name = "div"
            /\ ~s.excluded_by_parent
            /\ ClaimedExcluded(s.original_node,
                               dom.node[NearestPropagatingAncestor(a)].bounds)
    /\ \E s \in ReturnedNodes :
        LET a == NearestPropagatingAncestor(s.original_node)
            p == dom.parent[s.original_node]
        IN  /\ a # 0 /\ p # a
            /\ dom.node[p].tag_name = "button"
            /\ s.excluded_by_parent


\* C23 as stated: however many runs have gone over the raw tree, every
\* compound control carries the descriptor list one run gives it (one slider
\* descriptor on a range input, three descriptors on a number input), and
\* its line renders the compound_components of that list.
C23_DescriptorsDoNotAccumulate ==
    pc \in {"returned", "rendered"} =>
        /\ \A n \in RawNodes :
            compound_children[n] \in {<<>>, _add_compound_components(n)}
        /\ pc = "rendered" =>
            \A i \in 1..Len(rendered.lines) :
                rendered.lines[i].kind = "element" =>
                    rendered.lines[i].compound =
                        CompoundInfo(_add_compound_components(rendered.lines[i].node))


\* the lines of the rendering that carry the bracketed id
LinesCarrying(id) ==
    {i \in 1..Len(rendered.lines) :
        /\ rendered.lines[i].id = id
        /\ rendered.lines[i].marker \in {"[", "*[", "|SCROLL[", "*|SCROLL["}}

\* C24 as stated: the rendering of the returned tree has exactly one line
\* with the bracketed backend id for every key of the returned address table
\* and for every interactive node of the tree, wherever the node lies, and
\* every bracketed id of the rendering is a key of the table.
C24_EveryAddressIsRendered ==
    pc = "rendered" =>
        /\ \A key \in DOMAIN returned.selector_map :
            Cardinality(LinesCarrying(key)) = 1
        /\ \A s \in InteractiveNodes :
            Cardinality(LinesCarrying(BackendNodeId(s.original_node))) = 1
        /\ \A i \in 1..Len(rendered.lines) :
            rendered.lines[i].id # 0 =>
                rendered.lines[i].id \in DOMAIN returned.selector_map


\* C25 as stated: in the returned tree an actually-scrollable node that is
\* interactive has no interactive descendant at any depth, nested scroll
\* containers that are not clickable included.
C25_NoScrollContainerDoubleExposed ==
    pc \in {"returned", "rendered"} =>
        \A s \in ReturnedNodes :
            /\ dom.node[s.original_node].is_actually_scrollable
            /\ s.is_interactive
            => \A d \in Descendants(s) : ~d.is_interactive

====
